---- MODULE Spec2Model ----
\* Household eligibility scoring and qualification (households/eligibility.py),
\* the review of grant applications (upg_grants/views.py) and the SMS service
\* (core/sms.py).
\*
\* Numbers: a category score is an integer number of points.  A weight is kept
\* in thousandths (0.30 -> 300), so the unrounded weighted total is an integer
\* number of milli-points; round(total, 2) turns it into centi-points
\* (80.00 -> 8000).  monthly_income is a Decimal with two places, kept in cents.
\* Text on which the code does substring matching is a sequence of characters.
\* A household attribute can be set, set to None, or absent: the record keeps
\* the value, and the sets `none` and `missing` name the attributes in the
\* other two conditions.
EXTENDS Integers, Sequences, FiniteSets, TLC

VARIABLES
    household,   \* the household the scorer and the tool were built for
    households,  \* the list handed to batch_eligibility_assessment
    scorer,      \* an EligibilityScorer(household)
    tool,        \* a HouseholdQualificationTool(household), with its own scorer
    op,          \* the last operation called
    arg,         \* its argument (program_type), "" when it has none
    ret,         \* what it returned or raised
    callers,     \* concurrent callers: what each holds, where its call stands
    instances,   \* the attributes of the scorer instance each caller built
    application, \* the stored row of a HouseholdGrantApplication
    request,     \* the last request to grant_application_review, its response
    providers,   \* SMSService.providers
    sms_log,     \* the SMSLog rows, oldest first
    sms_call     \* the last call of SMSService.send_sms: providers tried, result

vars == <<household, households, scorer, tool, op, arg, ret, callers, instances,
          application, request, providers, sms_log, sms_call>>

\* the variables of the grant review and of the SMS service
Grants == <<application, request>>

Messaging == <<providers, sms_log, sms_call>>

-----------------------------------------------------------------------------
\* Bounds of the model

MaxBatch == 3

MaxTime == 2

NumCallers == 2

MaxLog == 1

-----------------------------------------------------------------------------
\* Python value helpers

Missing(h, f) == f \in h.missing

IsNone(h, f) == f \notin h.missing /\ f \in h.none

IsSet(h, f) == f \notin h.missing /\ f \notin h.none

Max2(a, b) == IF a >= b THEN a ELSE b

Min2(a, b) == IF a <= b THEN a ELSE b

UpperChars == <<"A","B","C","D","E","F","G","H","I","J","K","L","M",
                "N","O","P","Q","R","S","T","U","V","W","X","Y","Z">>

LowerChars == <<"a","b","c","d","e","f","g","h","i","j","k","l","m",
                "n","o","p","q","r","s","t","u","v","w","x","y","z">>

\* str.lower() on one character
LowerChar(c) ==
    IF \E i \in 1..Len(UpperChars) : UpperChars[i] = c
    THEN LowerChars[CHOOSE i \in 1..Len(UpperChars) : UpperChars[i] = c]
    ELSE c

\* str.lower()
Lower(s) == [i \in 1..Len(s) |-> LowerChar(s[i])]

\* keyword in text
Contains(s, kw) ==
    \E i \in 1..(Len(s) - Len(kw) + 1) : SubSeq(s, i, i + Len(kw) - 1) = kw

\* round(x, 2) on a value in milli-points: nearest centi-point, ties to even
Round2(milli) ==
    LET q == milli \div 10
        r == milli % 10
    IN  IF r < 5 THEN q
        ELSE IF r > 5 THEN q + 1
        ELSE IF q % 2 = 0 THEN q ELSE q + 1

-----------------------------------------------------------------------------
\* EligibilityScorer: constants

Categories == <<"poverty_index", "income_level", "asset_ownership",
                "social_factors", "geographic", "demographic">>

\* the weights of poverty_index and income_level exchanged
SCORING_WEIGHTS_exchanged ==
    [poverty_index   |-> 250,
     income_level    |-> 300,
     asset_ownership |-> 150,
     social_factors  |-> 150,
     geographic      |-> 100,
     demographic     |-> 50]

SCORING_WEIGHTS ==
    [poverty_index   |-> 300,
     income_level    |-> 250,
     asset_ownership |-> 150,
     social_factors  |-> 150,
     geographic      |-> 100,
     demographic     |-> 50]

WeightUnit == 1000

ELIGIBILITY_THRESHOLDS ==
    [highly_eligible     |-> 80,
     eligible            |-> 60,
     marginally_eligible |-> 40,
     not_eligible        |-> 0]

CentsPerKES == 100

extreme_poverty_line == 2500

poverty_line == 5000

basic_assets == {"bicycle", "radio", "mobile_phone"}

productive_assets == {"livestock", "land", "business_equipment"}

luxury_assets == {"car", "motorcycle", "television", "refrigerator"}

LocationKeywords ==
    << <<"r","e","m","o","t","e">>,
       <<"r","u","r","a","l">>,
       <<"i","s","o","l","a","t","e","d">> >>

-----------------------------------------------------------------------------
\* EligibilityScorer: category scores

\* self.household.latest_ppi_score is a plain attribute access
_score_poverty_index_raises(h) == Missing(h, "latest_ppi_score")

\* variant: no PPI assessment scored as the least poor band
_score_poverty_index_absent_least_poor(h) ==
    LET ppi_score == h.latest_ppi_score
    IN  IF IsSet(h, "latest_ppi_score") /\ ppi_score # 0
        THEN IF ppi_score <= 20 THEN 100
             ELSE IF ppi_score <= 40 THEN 80
             ELSE IF ppi_score <= 60 THEN 60
             ELSE IF ppi_score <= 80 THEN 30
             ELSE 10
        ELSE 10

_score_poverty_index(h) ==
    LET ppi_score == h.latest_ppi_score
    IN  IF IsSet(h, "latest_ppi_score") /\ ppi_score # 0
        THEN IF ppi_score <= 20 THEN 100
             ELSE IF ppi_score <= 40 THEN 80
             ELSE IF ppi_score <= 60 THEN 60
             ELSE IF ppi_score <= 80 THEN 30
             ELSE 10
        ELSE 50

\* the income bands with their upper limits excluded
_score_income_level_exclusive(h) ==
    LET monthly_income == IF IsSet(h, "monthly_income") THEN h.monthly_income ELSE 0
    IN  IF monthly_income < extreme_poverty_line * CentsPerKES THEN 100
        ELSE IF monthly_income < poverty_line * CentsPerKES THEN 80
        ELSE IF 2 * monthly_income < 3 * poverty_line * CentsPerKES THEN 60
        ELSE IF monthly_income < poverty_line * 2 * CentsPerKES THEN 40
        ELSE 20

_score_income_level(h) ==
    LET monthly_income == IF IsSet(h, "monthly_income") THEN h.monthly_income ELSE 0
    IN  IF monthly_income <= extreme_poverty_line * CentsPerKES THEN 100
        ELSE IF monthly_income <= poverty_line * CentsPerKES THEN 80
        ELSE IF 2 * monthly_income <= 3 * poverty_line * CentsPerKES THEN 60
        ELSE IF monthly_income <= poverty_line * 2 * CentsPerKES THEN 40
        ELSE 20

\* every asset that is neither basic nor productive counted as a luxury
\* variant: the tests of l.132 and l.134 in the other order
_score_asset_ownership_productive_first(h) ==
    LET assets == IF IsSet(h, "assets") THEN h.assets ELSE {}
        basic_count == Cardinality(basic_assets \cap assets)
        productive_count == Cardinality(productive_assets \cap assets)
        luxury_count == Cardinality(luxury_assets \cap assets)
    IN  IF luxury_count > 2 THEN 10
        ELSE IF productive_count > 0 \/ basic_count > 2 THEN 60
        ELSE IF luxury_count > 0 \/ productive_count > 2 THEN 30
        ELSE IF basic_count > 0 THEN 80
        ELSE 100

\* variant: every asset outside the basic and productive tiers counted as luxury
_score_asset_ownership_rest_luxury(h) ==
    LET assets == IF IsSet(h, "assets") THEN h.assets ELSE {}
        basic_count == Cardinality(basic_assets \cap assets)
        productive_count == Cardinality(productive_assets \cap assets)
        luxury_count == Cardinality(assets \ (basic_assets \cup productive_assets))
    IN  IF luxury_count > 2 THEN 10
        ELSE IF luxury_count > 0 \/ productive_count > 2 THEN 30
        ELSE IF productive_count > 0 \/ basic_count > 2 THEN 60
        ELSE IF basic_count > 0 THEN 80
        ELSE 100

_score_asset_ownership(h) ==
    LET assets == IF IsSet(h, "assets") THEN h.assets ELSE {}
        basic_count == Cardinality(basic_assets \cap assets)
        productive_count == Cardinality(productive_assets \cap assets)
        luxury_count == Cardinality(luxury_assets \cap assets)
    IN  IF luxury_count > 2 THEN 10
        ELSE IF luxury_count > 0 \/ productive_count > 2 THEN 30
        ELSE IF productive_count > 0 \/ basic_count > 2 THEN 60
        ELSE IF basic_count > 0 THEN 80
        ELSE 100

\* None >= 65, None > 0 and None - n raise TypeError
_score_social_factors_raises(h) ==
    \/ IsNone(h, "head_age")
    \/ IsNone(h, "disabled_members_count")
    \/ IsNone(h, "total_members")
    \/ IsNone(h, "working_members_count")

\* the elderly bonus granted in full from 55
ElderlyBonus55(head_age) == IF head_age >= 55 THEN 10 ELSE 0

ElderlyBonus(head_age) ==
    IF head_age >= 65 THEN 10 ELSE IF head_age >= 55 THEN 5 ELSE 0

\* the dependency ratio taken over all members, workers not subtracted
SocialVulnerabilityAllMembers(h) ==
    LET female == IF IsSet(h, "head_gender") /\ h.head_gender = "female" THEN 15 ELSE 0
        head_age == IF Missing(h, "head_age") THEN 0 ELSE h.head_age
        elderly == ElderlyBonus(head_age)
        disabled_members == IF Missing(h, "disabled_members_count") THEN 0
                            ELSE h.disabled_members_count
        disabled == IF disabled_members > 0 THEN 15 ELSE 0
        single == IF IsSet(h, "is_single_parent") /\ h.is_single_parent THEN 10 ELSE 0
        total_members == IF Missing(h, "total_members") THEN 1 ELSE h.total_members
        working_members == IF Missing(h, "working_members_count") THEN 1
                           ELSE h.working_members_count
        dependents == total_members
        workers == Max2(working_members, 1)
        dependency == IF dependents >= 3 * workers THEN 15
                      ELSE IF dependents >= 2 * workers THEN 10
                      ELSE IF dependents >= workers THEN 5
                      ELSE 0
    IN  50 + female + elderly + disabled + single + dependency

SocialVulnerability(h) ==
    LET female == IF IsSet(h, "head_gender") /\ h.head_gender = "female" THEN 15 ELSE 0
        head_age == IF Missing(h, "head_age") THEN 0 ELSE h.head_age
        elderly == ElderlyBonus(head_age)
        disabled_members == IF Missing(h, "disabled_members_count") THEN 0
                            ELSE h.disabled_members_count
        disabled == IF disabled_members > 0 THEN 15 ELSE 0
        single == IF IsSet(h, "is_single_parent") /\ h.is_single_parent THEN 10 ELSE 0
        total_members == IF Missing(h, "total_members") THEN 1 ELSE h.total_members
        working_members == IF Missing(h, "working_members_count") THEN 1
                           ELSE h.working_members_count
        dependents == total_members - working_members
        workers == Max2(working_members, 1)
        dependency == IF dependents >= 3 * workers THEN 15
                      ELSE IF dependents >= 2 * workers THEN 10
                      ELSE IF dependents >= workers THEN 5
                      ELSE 0
    IN  50 + female + elderly + disabled + single + dependency

\* the social score without its cap
_score_social_factors_uncapped(h) == SocialVulnerability(h)

_score_social_factors(h) == Min2(SocialVulnerability(h), 100)

\* the keywords looked up in the text as written, without lower()
_score_geographic_factors_case_sensitive(h) ==
    LET location == IF IsSet(h, "location") THEN h.location ELSE <<>>
        remote == IF \E k \in 1..Len(LocationKeywords) :
                        Contains(location, LocationKeywords[k])
                  THEN 20 ELSE 0
        has_distance == IsSet(h, "village") /\ "distance_to_market" \in h.village.attrs
        market_distance == h.village.distance_to_market
        market == IF ~has_distance THEN 0
                  ELSE IF market_distance > 20 THEN 15
                  ELSE IF market_distance > 10 THEN 10
                  ELSE IF market_distance > 5 THEN 5
                  ELSE 0
        has_electricity == IsSet(h, "has_electricity") /\ h.has_electricity
        has_water_access == IsSet(h, "has_clean_water") /\ h.has_clean_water
        score == 50 + remote + market
                 + (IF ~has_electricity THEN 10 ELSE 0)
                 + (IF ~has_water_access THEN 15 ELSE 0)
    IN  Min2(score, 100)

_score_geographic_factors(h) ==
    LET location == IF IsSet(h, "location") THEN h.location ELSE <<>>
        remote == IF \E k \in 1..Len(LocationKeywords) :
                        Contains(Lower(location), LocationKeywords[k])
                  THEN 20 ELSE 0
        has_distance == IsSet(h, "village") /\ "distance_to_market" \in h.village.attrs
        market_distance == h.village.distance_to_market
        market == IF ~has_distance THEN 0
                  ELSE IF market_distance > 20 THEN 15
                  ELSE IF market_distance > 10 THEN 10
                  ELSE IF market_distance > 5 THEN 5
                  ELSE 0
        has_electricity == IsSet(h, "has_electricity") /\ h.has_electricity
        has_water_access == IsSet(h, "has_clean_water") /\ h.has_clean_water
        score == 50 + remote + market
                 + (IF ~has_electricity THEN 10 ELSE 0)
                 + (IF ~has_water_access THEN 15 ELSE 0)
    IN  Min2(score, 100)

\* None >= 8 raises TypeError
_score_demographic_factors_raises(h) ==
    \/ IsNone(h, "total_members")
    \/ IsNone(h, "children_under_5_count")

\* households of three taken as small
_score_demographic_factors_small_three(h) ==
    LET total_members == IF Missing(h, "total_members") THEN 1 ELSE h.total_members
        size == IF total_members >= 8 THEN 20
                ELSE IF total_members >= 6 THEN 15
                ELSE IF total_members >= 4 THEN 10
                ELSE IF total_members <= 3 THEN 0 - 10
                ELSE 0
        children_under_5 == IF Missing(h, "children_under_5_count") THEN 0
                            ELSE h.children_under_5_count
        children == IF children_under_5 >= 3 THEN 15
                    ELSE IF children_under_5 >= 2 THEN 10
                    ELSE IF children_under_5 >= 1 THEN 5
                    ELSE 0
        head_education == IF Missing(h, "head_education_level") THEN "none"
                          ELSE IF IsNone(h, "head_education_level") THEN "None"
                          ELSE h.head_education_level
        education == IF head_education \in {"none", "primary_incomplete"} THEN 15
                     ELSE IF head_education = "primary_complete" THEN 10
                     ELSE IF head_education = "secondary_incomplete" THEN 5
                     ELSE 0
        score == 50 + size + children + education
    IN  Min2(Max2(score, 0), 100)

_score_demographic_factors(h) ==
    LET total_members == IF Missing(h, "total_members") THEN 1 ELSE h.total_members
        size == IF total_members >= 8 THEN 20
                ELSE IF total_members >= 6 THEN 15
                ELSE IF total_members >= 4 THEN 10
                ELSE IF total_members <= 2 THEN 0 - 10
                ELSE 0
        children_under_5 == IF Missing(h, "children_under_5_count") THEN 0
                            ELSE h.children_under_5_count
        children == IF children_under_5 >= 3 THEN 15
                    ELSE IF children_under_5 >= 2 THEN 10
                    ELSE IF children_under_5 >= 1 THEN 5
                    ELSE 0
        head_education == IF Missing(h, "head_education_level") THEN "none"
                          ELSE IF IsNone(h, "head_education_level") THEN "None"
                          ELSE h.head_education_level
        education == IF head_education \in {"none", "primary_incomplete"} THEN 15
                     ELSE IF head_education = "primary_complete" THEN 10
                     ELSE IF head_education = "secondary_incomplete" THEN 5
                     ELSE 0
        score == 50 + size + children + education
    IN  Min2(Max2(score, 0), 100)

-----------------------------------------------------------------------------
\* EligibilityScorer: aggregation, banding, result

\* the first exception raised while the six category scores are evaluated in
\* order, "none" when all six return
ScoringException(h) ==
    IF _score_poverty_index_raises(h) THEN "AttributeError"
    ELSE IF _score_social_factors_raises(h) THEN "TypeError"
    ELSE IF _score_demographic_factors_raises(h) THEN "TypeError"
    ELSE "none"

CategoryScores(h) ==
    [poverty_index   |-> _score_poverty_index(h),
     income_level    |-> _score_income_level(h),
     asset_ownership |-> _score_asset_ownership(h),
     social_factors  |-> _score_social_factors(h),
     geographic      |-> _score_geographic_factors(h),
     demographic     |-> _score_demographic_factors(h)]

RECURSIVE WeightedSum(_, _, _)
WeightedSum(scores, weights, n) ==
    IF n = 0 THEN 0
    ELSE WeightedSum(scores, weights, n - 1)
         + scores[Categories[n]] * weights[Categories[n]]

\* variant: weights 0.155 and 0.145 for social_factors and geographic
TotalScoreUnevenWeights(scores) ==
    WeightedSum(scores,
                [SCORING_WEIGHTS EXCEPT !.social_factors = 155, !.geographic = 145],
                Len(Categories))

\* self.total_score, in milli-points
TotalScore(scores) == WeightedSum(scores, SCORING_WEIGHTS, Len(Categories))

\* the bands with the boundaries excluded
EligibilityLevelStrict(total) ==
    IF total > ELIGIBILITY_THRESHOLDS.highly_eligible * WeightUnit
    THEN "highly_eligible"
    ELSE IF total > ELIGIBILITY_THRESHOLDS.eligible * WeightUnit
    THEN "eligible"
    ELSE IF total > ELIGIBILITY_THRESHOLDS.marginally_eligible * WeightUnit
    THEN "marginally_eligible"
    ELSE "not_eligible"

\* self.eligibility_level for a total in milli-points
EligibilityLevel(total) ==
    IF total >= ELIGIBILITY_THRESHOLDS.highly_eligible * WeightUnit
    THEN "highly_eligible"
    ELSE IF total >= ELIGIBILITY_THRESHOLDS.eligible * WeightUnit
    THEN "eligible"
    ELSE IF total >= ELIGIBILITY_THRESHOLDS.marginally_eligible * WeightUnit
    THEN "marginally_eligible"
    ELSE "not_eligible"

_get_recommendation(level) ==
    CASE level = "highly_eligible" ->
            "Highly recommended for immediate enrollment. This household meets all criteria for ultra-poor graduation program."
      [] level = "eligible" ->
            "Recommended for enrollment. This household would benefit significantly from the UPG program."
      [] level = "marginally_eligible" ->
            "Consider for enrollment based on program capacity. May need additional assessment of specific vulnerabilities."
      [] level = "not_eligible" ->
            "Not recommended for ultra-poor graduation program. Consider referral to other appropriate programs."
      [] OTHER -> "Unable to determine recommendation."

ImprovementHint(category) ==
    CASE category = "poverty_index" -> "Consider updated PPI assessment"
      [] category = "income_level" -> "Income documentation may need verification"
      [] category = "asset_ownership" -> "Asset assessment may need review"
      [] category = "social_factors" -> "Social vulnerability factors need assessment"
      [] category = "geographic" -> "Geographic accessibility factors"
      [] category = "demographic" -> "Demographic characteristics assessment"

RECURSIVE ImprovementAreasUpTo(_, _)
ImprovementAreasUpTo(scores, n) ==
    IF n = 0 THEN <<>>
    ELSE LET areas == ImprovementAreasUpTo(scores, n - 1)
         IN  IF scores[Categories[n]] < 60
             THEN Append(areas, ImprovementHint(Categories[n]))
             ELSE areas

\* the hints given up to and including a score of 60
RECURSIVE ImprovementAreasInclusiveUpTo(_, _)
ImprovementAreasInclusiveUpTo(scores, n) ==
    IF n = 0 THEN <<>>
    ELSE LET areas == ImprovementAreasInclusiveUpTo(scores, n - 1)
         IN  IF scores[Categories[n]] <= 60
             THEN Append(areas, ImprovementHint(Categories[n]))
             ELSE areas

_get_improvement_areas_inclusive(scores) ==
    ImprovementAreasInclusiveUpTo(scores, Len(Categories))

_get_improvement_areas(scores) == ImprovementAreasUpTo(scores, Len(Categories))

\* the scorer object: __init__ and the fields calculate_comprehensive_score sets
NoScores == [c \in {} |-> 0]

NewScorer == [scores |-> NoScores, total_score |-> 0, eligibility_level |-> "not_eligible"]

\* variant: "self.total_score +=" in place of "self.total_score =" at l.55
ScorerAfterCalculateAccumulating(s, h) ==
    IF ScoringException(h) # "none" THEN s
    ELSE LET scores == CategoryScores(h)
             total == s.total_score + TotalScore(scores)
         IN  [scores |-> scores, total_score |-> total,
              eligibility_level |-> EligibilityLevel(total)]

\* the instance attributes after calculate_comprehensive_score ran on an
\* instance whose attributes were s; the dict literal of l.45-52 is evaluated
\* in full before self.scores is assigned, so a raising call leaves s alone
ScorerAfterCalculate(s, h) ==
    IF ScoringException(h) # "none" THEN s
    ELSE LET scores == CategoryScores(h)
             total == TotalScore(scores)
         IN  [scores |-> scores, total_score |-> total,
              eligibility_level |-> EligibilityLevel(total)]

\* the dict of l.70-76, read from the attributes the instance holds
ResultOfScorer(s) ==
    [total_score       |-> Round2(s.total_score),
     eligibility_level |-> s.eligibility_level,
     category_scores   |-> s.scores,
     recommendation    |-> _get_recommendation(s.eligibility_level),
     improvement_areas |-> _get_improvement_areas(s.scores)]

\* the dict calculate_comprehensive_score returns on a newly constructed
\* instance (ScoringException(h) = "none")
ScoreResult(h) ==
    LET s == ScorerAfterCalculate(NewScorer, h)
    IN  [total_score       |-> Round2(s.total_score),
         eligibility_level |-> s.eligibility_level,
         category_scores   |-> s.scores,
         recommendation    |-> _get_recommendation(s.eligibility_level),
         improvement_areas |-> _get_improvement_areas(s.scores)]

Return(v) == [kind |-> "return", value |-> v]

Raise(e) == [kind |-> "raise", exc |-> e]

CallCalculate(h) ==
    IF ScoringException(h) # "none" THEN Raise(ScoringException(h))
    ELSE Return(ScoreResult(h))

IsEligibleLevel(level) == level \in {"highly_eligible", "eligible"}

ProgramTypes == {"graduation", "general", "livelihood"}

\* variant: 'graduation' open to highly_eligible households only
ProgramVerdictGraduationHighly(level, program_type) ==
    IF program_type = "graduation" THEN level = "highly_eligible"
    ELSE IF program_type = "general" THEN level # "not_eligible"
    ELSE FALSE

\* 'general' decided by the list of the graduation branch
ProgramVerdictOneList(level, program_type) ==
    IF program_type \in {"graduation", "general"} THEN IsEligibleLevel(level)
    ELSE FALSE

ProgramVerdict(level, program_type) ==
    IF program_type = "graduation" THEN IsEligibleLevel(level)
    ELSE IF program_type = "general" THEN level # "not_eligible"
    ELSE FALSE

-----------------------------------------------------------------------------
\* HouseholdQualificationTool

\* a Python bool or None held in a dict of checks
PyBool(b) == IF b THEN "True" ELSE "False"

Truthy(v) == v = "True"

CheckNames == <<"geographic_eligibility", "program_capacity",
                "previous_participation", "consent_and_commitment">>

\* variant: "return False" at l.331 when no flag is found
_check_geographic_eligibility_default_false(h) ==
    IF IsSet(h, "village") /\ "is_program_area" \in h.village.attrs
    THEN PyBool(h.village.is_program_area)
    ELSE "False"

_check_geographic_eligibility(h) ==
    IF IsSet(h, "village") /\ "is_program_area" \in h.village.attrs
    THEN PyBool(h.village.is_program_area)
    ELSE "True"

\* variant: a capacity check that finds no place for a household outside
\* the program area
_check_program_capacity_by_area(h) == _check_geographic_eligibility(h)

_check_program_capacity(h) == "True"

_check_previous_participation(h) == "True"

\* variant: getattr(self.household, 'consent_given', True) at l.346
_check_consent_commitment_default_true(h) ==
    IF Missing(h, "consent_given") THEN "True"
    ELSE IF IsNone(h, "consent_given") THEN "None"
    ELSE PyBool(h.consent_given)

_check_consent_commitment(h) ==
    IF Missing(h, "consent_given") THEN "False"
    ELSE IF IsNone(h, "consent_given") THEN "None"
    ELSE PyBool(h.consent_given)

QualificationChecks(h) ==
    [geographic_eligibility |-> _check_geographic_eligibility(h),
     program_capacity       |-> _check_program_capacity(h),
     previous_participation |-> _check_previous_participation(h),
     consent_and_commitment |-> _check_consent_commitment(h)]

\* [check for check, passed in qualification_checks.items() if not passed]
RECURSIVE FailingChecksUpTo(_, _)
FailingChecksUpTo(checks, n) ==
    IF n = 0 THEN <<>>
    ELSE LET failing == FailingChecksUpTo(checks, n - 1)
         IN  IF ~Truthy(checks[CheckNames[n]])
             THEN Append(failing, CheckNames[n])
             ELSE failing

\* the same comprehension with the test inverted
RECURSIVE PassingChecksUpTo(_, _)
PassingChecksUpTo(checks, n) ==
    IF n = 0 THEN <<>>
    ELSE LET passing == PassingChecksUpTo(checks, n - 1)
         IN  IF Truthy(checks[CheckNames[n]])
             THEN Append(passing, CheckNames[n])
             ELSE passing

BlockingFactorsInverted(checks) == PassingChecksUpTo(checks, Len(CheckNames))

BlockingFactors(checks) == FailingChecksUpTo(checks, Len(CheckNames))

\* any(qualification_checks.values())
AllChecksPassAny(checks) ==
    \E n \in 1..Len(CheckNames) : Truthy(checks[CheckNames[n]])

\* all(qualification_checks.values())
AllChecksPass(checks) ==
    \A n \in 1..Len(CheckNames) : Truthy(checks[CheckNames[n]])

_make_final_decision(eligibility_result, qualification_checks) ==
    LET is_eligible == IsEligibleLevel(eligibility_result.eligibility_level)
        all_checks_pass == AllChecksPass(qualification_checks)
    IN  IF is_eligible /\ all_checks_pass
        THEN [qualified           |-> TRUE,
              qualification_level |-> eligibility_result.eligibility_level,
              priority_score      |-> eligibility_result.total_score,
              status              |-> "qualified"]
        ELSE IF is_eligible
        THEN [qualified           |-> FALSE,
              qualification_level |-> "conditional",
              priority_score      |-> eligibility_result.total_score,
              status              |-> "needs_review",
              blocking_factors    |-> BlockingFactors(qualification_checks)]
        ELSE [qualified           |-> FALSE,
              qualification_level |-> "not_qualified",
              priority_score      |-> eligibility_result.total_score,
              status              |-> "not_qualified"]

_get_next_steps(final_qualification) ==
    IF final_qualification.qualified
    THEN <<"Proceed with program enrollment",
           "Complete household registration",
           "Assign to mentor",
           "Schedule initial training sessions">>
    ELSE IF final_qualification.status = "needs_review"
    THEN <<"Address blocking factors",
           "Complete additional assessments",
           "Obtain required documentation",
           "Resubmit for qualification review">>
    ELSE <<"Refer to alternative programs",
           "Provide resource information",
           "Consider re-assessment in future">>

\* timezone.now(): read from the environment at each call
Times == 1..MaxTime

\* the dict run_qualification_assessment returns (ScoringException(h) = "none")
\* l.305-324, given the dict self.scorer.calculate_comprehensive_score() gave
QualificationResultOf(eligibility_result, h, now) ==
    LET qualification_checks == QualificationChecks(h)
        final_qualification == _make_final_decision(eligibility_result,
                                                    qualification_checks)
    IN  [eligibility_assessment |-> eligibility_result,
         qualification_checks   |-> qualification_checks,
         final_qualification    |-> final_qualification,
         next_steps             |-> _get_next_steps(final_qualification),
         assessment_date        |-> now]

\* run_qualification_assessment on a newly constructed tool
QualificationResult(h, now) == QualificationResultOf(ScoreResult(h), h, now)

-----------------------------------------------------------------------------
\* Utility functions

Reverse(list) == [i \in 1..Len(list) |-> list[Len(list) + 1 - i]]

\* one step of a stable ascending sort on total_score: e goes after every
\* element whose key is not greater than its own
RECURSIVE InsertByScore(_, _)
InsertByScore(sorted, e) ==
    IF sorted = <<>> THEN <<e>>
    ELSE IF sorted[Len(sorted)].total_score <= e.total_score
    THEN Append(sorted, e)
    ELSE Append(InsertByScore(SubSeq(sorted, 1, Len(sorted) - 1), e),
                sorted[Len(sorted)])

RECURSIVE StableSortByScore(_)
StableSortByScore(list) ==
    IF list = <<>> THEN <<>>
    ELSE InsertByScore(StableSortByScore(SubSeq(list, 1, Len(list) - 1)),
                       list[Len(list)])

\* sorted ascending and then reversed: equal scores come out in reverse order
SortAscendingThenReverse(results) == Reverse(StableSortByScore(results))

\* results.sort(key=lambda x: x['total_score'], reverse=True): list.sort
\* reverses the list, sorts it stably in ascending key order and reverses it
\* again, which keeps equal keys in their original order
SortByScoreDescending(results) == Reverse(StableSortByScore(Reverse(results)))

BatchEntry(h) ==
    LET result == ScoreResult(h)
    IN  [household_id      |-> h.id,
         household_name    |-> h.name,
         total_score       |-> result.total_score,
         eligibility_level |-> result.eligibility_level,
         eligible          |-> IsEligibleLevel(result.eligibility_level)]

\* the call raises at the first household whose scoring raises
BatchException(hs) ==
    IF \E i \in 1..Len(hs) : ScoringException(hs[i]) # "none"
    THEN ScoringException(hs[CHOOSE i \in 1..Len(hs) :
                                /\ ScoringException(hs[i]) # "none"
                                /\ \A j \in 1..(i - 1) : ScoringException(hs[j]) = "none"])
    ELSE "none"

CallBatch(hs) ==
    IF BatchException(hs) # "none" THEN Raise(BatchException(hs))
    ELSE Return(SortByScoreDescending([i \in 1..Len(hs) |-> BatchEntry(hs[i])]))

-----------------------------------------------------------------------------
\* Households the operations are applied to

Fields == {"latest_ppi_score", "monthly_income", "assets", "head_gender",
           "head_age", "disabled_members_count", "is_single_parent",
           "total_members", "working_members_count", "location", "village",
           "has_electricity", "has_clean_water", "children_under_5_count",
           "head_education_level", "consent_given"}

VillageAttrs == {"distance_to_market", "is_program_area"}

Village(distance, program_area) ==
    [distance_to_market |-> distance, is_program_area |-> program_area,
     attrs |-> VillageAttrs]

RemoteRuralArea == <<"r","e","m","o","t","e"," ","r","u","r","a","l"," ","a","r","e","a">>

UrbanCentre == <<"U","r","b","a","n"," ","c","e","n","t","r","e">>

IsolatedUpper == <<"I","S","O","L","A","T","E","D">>

IdentityProfiles == {[id |-> 1, name |-> "hh1", missing |-> {}]}

PovertyProfiles ==
    {[latest_ppi_score |-> p, none |-> {}] : p \in {15, 45, 90}}
    \cup {[latest_ppi_score |-> 0, none |-> {"latest_ppi_score"}]}

IncomeProfiles == {[monthly_income |-> i] : i \in {200000, 600000, 1200000}}

AssetProfiles ==
    {[assets |-> a] : a \in {{}, {"radio", "house"},
                             {"car", "motorcycle", "television", "land"}}}

SocialProfiles ==
    {[head_gender |-> "male", head_age |-> 30, disabled_members_count |-> 0,
      is_single_parent |-> FALSE],
     [head_gender |-> "female", head_age |-> 60, disabled_members_count |-> 1,
      is_single_parent |-> FALSE],
     [head_gender |-> "female", head_age |-> 70, disabled_members_count |-> 1,
      is_single_parent |-> TRUE]}

MemberProfiles ==
    {[total_members |-> 1, working_members_count |-> 1,
      children_under_5_count |-> 0, head_education_level |-> "tertiary"],
     [total_members |-> 5, working_members_count |-> 2,
      children_under_5_count |-> 1, head_education_level |-> "primary"],
     [total_members |-> 9, working_members_count |-> 3,
      children_under_5_count |-> 3, head_education_level |-> "none"]}

GeographicProfiles ==
    {[location |-> RemoteRuralArea, has_electricity |-> FALSE,
      has_clean_water |-> FALSE, village |-> Village(25, TRUE)],
     [location |-> UrbanCentre, has_electricity |-> TRUE,
      has_clean_water |-> TRUE, village |-> Village(8, TRUE)],
     [location |-> UrbanCentre, has_electricity |-> TRUE,
      has_clean_water |-> FALSE, village |-> Village(3, FALSE)]}

ConsentProfiles == {[consent_given |-> c] : c \in BOOLEAN}

\* every combination of the profiles
ProfileHouseholds ==
    {a @@ b @@ c @@ d @@ e @@ f @@ g @@ i :
        a \in IdentityProfiles, b \in PovertyProfiles, c \in IncomeProfiles,
        d \in AssetProfiles, e \in SocialProfiles, f \in MemberProfiles,
        g \in GeographicProfiles, i \in ConsentProfiles}

\* the household of the concrete scenario
ScenarioHousehold ==
    [id |-> 1, name |-> "hh1", none |-> {}, missing |-> {},
     latest_ppi_score |-> 15, monthly_income |-> 200000, assets |-> {},
     head_gender |-> "female", head_age |-> 60, disabled_members_count |-> 1,
     is_single_parent |-> FALSE, total_members |-> 9,
     working_members_count |-> 3, location |-> RemoteRuralArea,
     village |-> Village(25, TRUE), has_electricity |-> FALSE,
     has_clean_water |-> FALSE, children_under_5_count |-> 3,
     head_education_level |-> "none", consent_given |-> TRUE]

\* a household whose six category scores are all 80
EightyHousehold ==
    [id |-> 1, name |-> "hh1", none |-> {}, missing |-> {},
     latest_ppi_score |-> 30, monthly_income |-> 400000, assets |-> {"radio"},
     head_gender |-> "female", head_age |-> 40, disabled_members_count |-> 1,
     is_single_parent |-> FALSE, total_members |-> 5,
     working_members_count |-> 3, location |-> IsolatedUpper,
     village |-> Village(12, TRUE), has_electricity |-> TRUE,
     has_clean_water |-> TRUE, children_under_5_count |-> 1,
     head_education_level |-> "none", consent_given |-> TRUE]

\* h with the attributes in n set to None and those in m absent
Blank(h, n, m) == [h EXCEPT !.none = n, !.missing = m]

\* a household with low scores in every category
LowHousehold ==
    [id |-> 1, name |-> "hh1", none |-> {}, missing |-> {},
     latest_ppi_score |-> 90, monthly_income |-> 1200000,
     assets |-> {"car", "motorcycle", "television"},
     head_gender |-> "male", head_age |-> 30, disabled_members_count |-> 0,
     is_single_parent |-> FALSE, total_members |-> 1,
     working_members_count |-> 1, location |-> UrbanCentre,
     village |-> Village(3, FALSE), has_electricity |-> TRUE,
     has_clean_water |-> TRUE, children_under_5_count |-> 0,
     head_education_level |-> "tertiary", consent_given |-> FALSE]

BaseHouseholds == {ScenarioHousehold, EightyHousehold, LowHousehold}

SampleHouseholds == ProfileHouseholds \cup BaseHouseholds

\* at most two attributes None or absent, or all of them
BlankChoices ==
    LET few == {{}} \cup {{f, g} : f \in Fields, g \in Fields}
    IN  UNION {{<<n, u \ n>> : n \in SUBSET u} : u \in few}
        \cup {<<{"latest_ppi_score"}, Fields \ {"latest_ppi_score"}>>,
              <<Fields, {}>>, <<{}, Fields>>}

BlankedHouseholds ==
    {Blank(b, c[1], c[2]) : b \in BaseHouseholds, c \in BlankChoices}

\* every PPI score of the 0-100 scale, and no PPI assessment at all
PPIHouseholds ==
    {[b EXCEPT !.latest_ppi_score = p] : b \in BaseHouseholds, p \in 0..100}
    \cup {Blank(b, {"latest_ppi_score"}, {}) : b \in BaseHouseholds}

\* monthly incomes in cents, on and next to every limit of the income bands
IncomeSamples ==
    {0, 1, 249999, 250000, 250001, 499999, 500000, 500001,
     749999, 750000, 750001, 999999, 1000000, 1000001, 5000000}

IncomeHouseholds ==
    {[b EXCEPT !.monthly_income = i] : b \in BaseHouseholds, i \in IncomeSamples}
    \cup {Blank(b, {"monthly_income"}, {}) : b \in BaseHouseholds}

\* the flags of the three tiers and one flag outside them
AssetNames == basic_assets \cup productive_assets \cup luxury_assets \cup {"house"}

\* every set of true asset flags
AssetHouseholds ==
    {[EightyHousehold EXCEPT !.assets = a] : a \in SUBSET AssetNames}

\* <<total_members, working_members_count>>: ratios below 1, between the
\* limits and on them, and households without a working member
MemberSamples ==
    {<<0, 0>>, <<1, 1>>, <<2, 3>>, <<2, 1>>, <<3, 1>>, <<4, 1>>,
     <<3, 0>>, <<5, 2>>, <<7, 2>>, <<9, 3>>}

SocialHouseholds ==
    {[EightyHousehold EXCEPT !.head_gender = g, !.head_age = a,
                             !.disabled_members_count = d,
                             !.is_single_parent = p,
                             !.total_members = m[1],
                             !.working_members_count = m[2]] :
        g \in {"female", "male", ""}, a \in {0, 54, 55, 64, 65, 80},
        d \in {0, 1}, p \in BOOLEAN, m \in MemberSamples}

RuralMixedCase == <<"R","u","r","a","l">>

\* 'rural' inside another word
SemiruralTown == <<"s","e","m","i","r","u","r","a","l"," ","t","o","w","n">>

\* a keyword cut short
RemotTown == <<"r","e","m","o","t"," ","t","o","w","n">>

LocationSamples ==
    {RemoteRuralArea, UrbanCentre, IsolatedUpper, RuralMixedCase, SemiruralTown,
     RemotTown, <<>>}

\* distances on and next to the limits of the market bonus
DistanceSamples == {0, 5, 6, 10, 11, 20, 21, 25}

GeographicHouseholds ==
    {[EightyHousehold EXCEPT !.location = l, !.has_electricity = e,
                             !.has_clean_water = w, !.village = v] :
        l \in LocationSamples, e \in BOOLEAN, w \in BOOLEAN,
        v \in {Village(d, TRUE) : d \in DistanceSamples}}
    \cup {Blank([EightyHousehold EXCEPT !.location = l, !.has_electricity = e,
                                        !.has_clean_water = w], {"village"}, {}) :
            l \in LocationSamples, e \in BOOLEAN, w \in BOOLEAN}

\* the levels the scorer tests and the choices of HouseholdMember
EducationLevels ==
    {"none", "primary_incomplete", "primary_complete", "secondary_incomplete",
     "primary", "secondary", "tertiary"}

DemographicHouseholds ==
    {[EightyHousehold EXCEPT !.total_members = t, !.children_under_5_count = c,
                             !.head_education_level = e] :
        t \in 0..9, c \in 0..4, e \in EducationLevels}

\* a village object that carries no is_program_area attribute
UnflaggedVillage ==
    [distance_to_market |-> 12, is_program_area |-> FALSE,
     attrs |-> {"distance_to_market"}]

VillageSamples == {Village(12, TRUE), Village(12, FALSE), UnflaggedVillage}

\* village and consent_given set, None or absent, independently
CheckBlanks ==
    {c \in (SUBSET {"village", "consent_given"}) \X (SUBSET {"village", "consent_given"}) :
        c[1] \cap c[2] = {}}

\* households of every eligibility level, with every kind of village and
\* of consent
CheckHouseholds ==
    {Blank([b EXCEPT !.village = v, !.consent_given = g], c[1], c[2]) :
        b \in BaseHouseholds, v \in VillageSamples, g \in BOOLEAN,
        c \in CheckBlanks}

BatchPool ==
    {[EightyHousehold EXCEPT !.id = 1, !.name = "hh1"],
     [ScenarioHousehold EXCEPT !.id = 2, !.name = "hh2"],
     [EightyHousehold EXCEPT !.id = 3, !.name = "hh3", !.consent_given = FALSE],
     [LowHousehold EXCEPT !.id = 4, !.name = "hh4"],
     [EightyHousehold EXCEPT !.id = 5, !.name = "hh5", !.head_age = 50]}

\* lists of distinct households, as a queryset yields them
BatchInputs ==
    {hs \in UNION {[1..n -> BatchPool] : n \in 0..MaxBatch} :
        \A i \in 1..Len(hs) : \A j \in 1..Len(hs) :
            i # j => hs[i].id # hs[j].id}

-----------------------------------------------------------------------------
\* State machine

NoReturn == [kind |-> "none"]

\* no concurrent caller
NoCallers == <<>>

\* no grant application, no request, no SMS service
NoApplication == [status |-> "none"]

NoRequest == [response |-> "none"]

NoCall == [result |-> "none"]

InitOthers ==
    /\ application = NoApplication
    /\ request = NoRequest
    /\ providers = <<>>
    /\ sms_log = <<>>
    /\ sms_call = NoCall

InitCall ==
    /\ scorer = NewScorer
    /\ tool = [scorer |-> NewScorer]
    /\ op = "init"
    /\ arg = ""
    /\ ret = NoReturn
    /\ callers = NoCallers
    /\ instances = NoCallers
    /\ InitOthers

Init ==
    /\ household \in SampleHouseholds
    /\ households = <<household>>
    /\ InitCall

InitBlanked ==
    /\ household \in BlankedHouseholds
    /\ households = <<household>>
    /\ InitCall

InitPPI ==
    /\ household \in PPIHouseholds
    /\ households = <<household>>
    /\ InitCall

InitIncome ==
    /\ household \in IncomeHouseholds
    /\ households = <<household>>
    /\ InitCall

InitAssets ==
    /\ household \in AssetHouseholds
    /\ households = <<household>>
    /\ InitCall

InitSocial ==
    /\ household \in SocialHouseholds
    /\ households = <<household>>
    /\ InitCall

InitGeographic ==
    /\ household \in GeographicHouseholds
    /\ households = <<household>>
    /\ InitCall

InitDemographic ==
    /\ household \in DemographicHouseholds
    /\ households = <<household>>
    /\ InitCall

InitChecks ==
    /\ household \in CheckHouseholds
    /\ households = <<household>>
    /\ InitCall

InitBatch ==
    /\ households \in BatchInputs
    /\ household = [EightyHousehold EXCEPT !.id = 1, !.name = "hh1"]
    /\ InitCall

calculate_comprehensive_score ==
    /\ op' = "calculate_comprehensive_score"
    /\ arg' = ""
    /\ scorer' = ScorerAfterCalculate(scorer, household)
    /\ ret' = IF ScoringException(household) # "none"
              THEN Raise(ScoringException(household))
              ELSE Return(ResultOfScorer(scorer'))
    /\ UNCHANGED <<household, households, tool, callers, instances, Grants, Messaging>>

is_eligible_for_program ==
    \E program_type \in ProgramTypes :
        /\ op' = "is_eligible_for_program"
        /\ arg' = program_type
        /\ scorer' = ScorerAfterCalculate(scorer, household)
        /\ ret' = IF ScoringException(household) # "none"
                  THEN Raise(ScoringException(household))
                  ELSE Return(ProgramVerdict(ResultOfScorer(scorer').eligibility_level,
                                             program_type))
        /\ UNCHANGED <<household, households, tool, callers, instances, Grants, Messaging>>

run_qualification_assessment ==
    \E now \in Times :
        /\ op' = "run_qualification_assessment"
        /\ arg' = ""
        /\ tool' = [scorer |-> ScorerAfterCalculate(tool.scorer, household)]
        /\ ret' = IF ScoringException(household) # "none"
                  THEN Raise(ScoringException(household))
                  ELSE Return(QualificationResultOf(ResultOfScorer(tool'.scorer),
                                                    household, now))
        /\ UNCHANGED <<household, households, scorer, callers, instances, Grants, Messaging>>

quick_eligibility_check ==
    /\ op' = "quick_eligibility_check"
    /\ arg' = ""
    /\ ret' = IF ScoringException(household) # "none"
              THEN Raise(ScoringException(household))
              ELSE Return(IsEligibleLevel(ScoreResult(household).eligibility_level))
    /\ UNCHANGED <<household, households, scorer, tool, callers, instances, Grants, Messaging>>

\* variant: the input list itself is put in the order of the results
\* ("households.sort" beside "results.sort" at l.426)
batch_eligibility_assessment_sorting_input ==
    /\ op' = "batch_eligibility_assessment"
    /\ arg' = ""
    /\ ret' = CallBatch(households)
    /\ households' =
           IF ret'.kind = "return"
           THEN [k \in 1..Len(households) |->
                    CHOOSE h \in {households[i] : i \in 1..Len(households)} :
                        h.id = ret'.value[k].household_id]
           ELSE households
    /\ UNCHANGED <<household, scorer, tool, callers, instances, Grants, Messaging>>

batch_eligibility_assessment ==
    /\ op' = "batch_eligibility_assessment"
    /\ arg' = ""
    /\ ret' = CallBatch(households)
    /\ UNCHANGED <<household, households, scorer, tool, callers, instances, Grants, Messaging>>

Next ==
    \/ calculate_comprehensive_score
    \/ is_eligible_for_program
    \/ run_qualification_assessment
    \/ quick_eligibility_check
    \/ batch_eligibility_assessment

Spec == Init /\ [][Next]_vars

SpecBlanked == InitBlanked /\ [][Next]_vars

SpecPPI == InitPPI /\ [][Next]_vars

SpecBatch == InitBatch /\ [][Next]_vars

SpecIncome == InitIncome /\ [][Next]_vars

SpecAssets == InitAssets /\ [][Next]_vars

SpecSocial == InitSocial /\ [][Next]_vars

SpecGeographic == InitGeographic /\ [][Next]_vars

SpecDemographic == InitDemographic /\ [][Next]_vars

SpecChecks == InitChecks /\ [][Next]_vars

-----------------------------------------------------------------------------
\* Concurrent callers: each builds its own EligibilityScorer (kind "scorer")
\* or HouseholdQualificationTool (kind "tool") for its own household and
\* calls it; the steps of the calls interleave at the attribute assignments
\* of calculate_comprehensive_score.

Callers == 1..NumCallers

CallerKinds == {"scorer", "tool"}

\* the scorer instance whose attributes "self." names in caller c's call:
\* the one constructed for c (l.37-41, l.298)
InstanceOfShared(c) == CHOOSE i \in Callers : \A j \in Callers : i <= j

InstanceOf(c) == c

ConcurrentHouseholds ==
    {ScenarioHousehold, LowHousehold, Blank(EightyHousehold, {"head_age"}, {})}

NewCaller(kind, h) ==
    [kind |-> kind, household |-> h, pc |-> "idle",
     eligibility_result |-> NoReturn, ret |-> NoReturn]

InitConcurrent ==
    /\ household = ScenarioHousehold
    /\ households = <<>>
    /\ scorer = NewScorer
    /\ tool = [scorer |-> NewScorer]
    /\ op = "init"
    /\ arg = ""
    /\ ret = NoReturn
    /\ callers \in [Callers -> {NewCaller(k, h) : k \in CallerKinds,
                                                  h \in ConcurrentHouseholds}]
    /\ instances = [c \in Callers |-> NewScorer]
    /\ InitOthers

Sequential == <<household, households, scorer, tool, op, arg, ret>>

\* the caller calls calculate_comprehensive_score (kind "scorer") or
\* run_qualification_assessment (kind "tool") on its instance
call(c) ==
    /\ callers[c].pc \in {"idle", "done"}
    /\ callers' = [callers EXCEPT ![c].pc = "called",
                                  ![c].eligibility_result = NoReturn,
                                  ![c].ret = NoReturn]
    /\ UNCHANGED <<instances, Sequential, Grants, Messaging>>

\* l.45-52: self.scores = {...}, or the exception a category score raises
assign_scores(c) ==
    /\ callers[c].pc = "called"
    /\ IF ScoringException(callers[c].household) # "none"
       THEN /\ callers' = [callers EXCEPT
                              ![c].pc = "done",
                              ![c].ret = Raise(ScoringException(callers[c].household))]
            /\ UNCHANGED instances
       ELSE /\ instances' = [instances EXCEPT
                                ![InstanceOf(c)].scores =
                                    CategoryScores(callers[c].household)]
            /\ callers' = [callers EXCEPT ![c].pc = "scores_assigned"]
    /\ UNCHANGED <<Sequential, Grants, Messaging>>

\* l.55-58: self.total_score = sum(...) over self.scores
assign_total_score(c) ==
    /\ callers[c].pc = "scores_assigned"
    /\ instances' = [instances EXCEPT
                        ![InstanceOf(c)].total_score =
                            TotalScore(instances[InstanceOf(c)].scores)]
    /\ callers' = [callers EXCEPT ![c].pc = "total_assigned"]
    /\ UNCHANGED <<Sequential, Grants, Messaging>>

\* l.61-68: self.eligibility_level from self.total_score
assign_eligibility_level(c) ==
    /\ callers[c].pc = "total_assigned"
    /\ instances' = [instances EXCEPT
                        ![InstanceOf(c)].eligibility_level =
                            EligibilityLevel(instances[InstanceOf(c)].total_score)]
    /\ callers' = [callers EXCEPT ![c].pc = "level_assigned"]
    /\ UNCHANGED <<Sequential, Grants, Messaging>>

\* l.70-76: the dict built from the attributes; it is the caller's result
\* (kind "scorer") or eligibility_result of l.303 (kind "tool")
return_result(c) ==
    /\ callers[c].pc = "level_assigned"
    /\ callers' =
          IF callers[c].kind = "scorer"
          THEN [callers EXCEPT
                  ![c].pc = "done",
                  ![c].ret = Return(ResultOfScorer(instances[InstanceOf(c)]))]
          ELSE [callers EXCEPT
                  ![c].pc = "assessed",
                  ![c].eligibility_result =
                      Return(ResultOfScorer(instances[InstanceOf(c)]))]
    /\ UNCHANGED <<instances, Sequential, Grants, Messaging>>

\* l.305-324: the checks, the decision and the dict of the tool
return_qualification(c) ==
    \E now \in Times :
        /\ callers[c].pc = "assessed"
        /\ callers' = [callers EXCEPT
                          ![c].pc = "done",
                          ![c].ret = Return(QualificationResultOf(
                                               callers[c].eligibility_result.value,
                                               callers[c].household, now))]
        /\ UNCHANGED <<instances, Sequential, Grants, Messaging>>

NextConcurrent ==
    \E c \in Callers :
        \/ call(c)
        \/ assign_scores(c)
        \/ assign_total_score(c)
        \/ assign_eligibility_level(c)
        \/ return_result(c)
        \/ return_qualification(c)

SpecConcurrent == InitConcurrent /\ [][NextConcurrent]_vars

-----------------------------------------------------------------------------
\* Grant review (upg_grants/views.py, upg_grants/models.py).  A user is the
\* record of its role; an amount is a Decimal with two places, kept in cents.
\* A POST value is a sequence of characters.  The nullable columns of the
\* application are named in its `none` set while they hold no value.

Roles ==
    {"program_manager", "county_director", "executive", "ict_admin", "me_staff",
     "mentor"}

Users == {[role |-> r] : r \in Roles}

NoUser == [role |-> ""]

can_be_reviewed_by(user) ==
    user.role \in {"program_manager", "county_director", "executive",
                   "ict_admin", "me_staff"}

\* variant: the list of l.152 used at l.156 too
can_be_approved_by_any_reviewer(user) == can_be_reviewed_by(user)

can_be_approved_by(user) ==
    user.role \in {"program_manager", "county_director", "executive"}

Digits == <<"0", "1", "2", "3", "4", "5", "6", "7", "8", "9">>

DigitValue(c) == (CHOOSE i \in 1..Len(Digits) : Digits[i] = c) - 1

\* a text of decimal digits: the numeric texts of the samples
IsDigits(text) ==
    /\ text # <<>>
    /\ \A i \in 1..Len(text) : \E d \in 1..Len(Digits) : text[i] = Digits[d]

\* int(text) and Decimal(text) on a text of digits
RECURSIVE ParseInt(_)
ParseInt(text) ==
    IF text = <<>> THEN 0
    ELSE 10 * ParseInt(SubSeq(text, 1, Len(text) - 1)) + DigitValue(text[Len(text)])

\* review_score as posted: empty, a number, not a number
ScoreTexts == {<<>>, <<"8", "5">>, <<"x">>}

\* approved_amount as posted: a number, not a number, empty
AmountTexts == {<<"5", "0", "0">>, <<"x">>, <<>>}

\* POST data without a field; has_amount tells whether approved_amount is
\* among the posted fields
EmptyPost ==
    [action |-> "", review_notes |-> "", review_score |-> <<>>,
     approval_notes |-> "", has_amount |-> FALSE, approved_amount |-> <<>>]

\* the forms of the review page, and a form with an action the view does
\* not know
Posts ==
    {[EmptyPost EXCEPT !.action = "review", !.review_notes = "seen",
                       !.review_score = sc] : sc \in ScoreTexts}
    \cup {[EmptyPost EXCEPT !.action = "approve", !.approval_notes = "agreed",
                            !.has_amount = TRUE, !.approved_amount = am] :
             am \in AmountTexts}
    \cup {[EmptyPost EXCEPT !.action = "approve", !.approval_notes = "agreed"],
          [EmptyPost EXCEPT !.action = "reject", !.approval_notes = "declined"],
          [EmptyPost EXCEPT !.action = "comment"]}

Requests ==
    {[method |-> "GET", post |-> EmptyPost]}
    \cup {[method |-> "POST", post |-> p] : p \in Posts}

RequestedAmount == 1000 * CentsPerKES

\* a stored application nobody has reviewed yet
NewApplication(status) ==
    [status |-> status, requested_amount |-> RequestedAmount,
     reviewed_by |-> NoUser, review_date |-> 0, review_notes |-> "",
     review_score |-> 0, approved_by |-> NoUser, approval_date |-> 0,
     approval_notes |-> "", approved_amount |-> 0,
     none |-> {"reviewed_by", "review_date", "review_score", "approved_by",
               "approval_date", "approved_amount"}]

InitGrants ==
    /\ household = ScenarioHousehold
    /\ households = <<>>
    /\ scorer = NewScorer
    /\ tool = [scorer |-> NewScorer]
    /\ op = "init"
    /\ arg = ""
    /\ ret = NoReturn
    /\ callers = NoCallers
    /\ instances = NoCallers
    /\ application \in {NewApplication(st) : st \in {"draft", "submitted"}}
    /\ request = NoRequest
    /\ providers = <<>>
    /\ sms_log = <<>>
    /\ sms_call = NoCall

Response(user, method, post, response, message) ==
    [user |-> user, method |-> method,
     action |-> IF method = "POST" THEN post.action ELSE "",
     response |-> response, message |-> message]

\* l.258-265: the row after action 'review'
Reviewed(app, user, post, now) ==
    [app EXCEPT !.status = "under_review",
                !.reviewed_by = user,
                !.review_date = now,
                !.review_notes = post.review_notes,
                !.review_score = IF post.review_score = <<>> THEN 0
                                 ELSE ParseInt(post.review_score),
                !.none = IF post.review_score = <<>>
                         THEN (@ \ {"reviewed_by", "review_date"}) \cup {"review_score"}
                         ELSE @ \ {"reviewed_by", "review_date", "review_score"}]

\* l.267-273: the row after action 'approve'
Approved(app, user, post, now) ==
    [app EXCEPT !.status = "approved",
                !.approved_by = user,
                !.approval_date = now,
                !.approval_notes = post.approval_notes,
                !.approved_amount = IF post.has_amount
                                    THEN ParseInt(post.approved_amount) * CentsPerKES
                                    ELSE app.requested_amount,
                !.none = @ \ {"approved_by", "approval_date", "approved_amount"}]

\* l.276-281: the row after action 'reject'
Rejected(app, user, post, now) ==
    [app EXCEPT !.status = "rejected",
                !.approved_by = user,
                !.approval_date = now,
                !.approval_notes = post.approval_notes,
                !.none = @ \ {"approved_by", "approval_date"}]

\* one request to the review view: the attributes are assigned on the loaded
\* object and reach the row with save(); a conversion that raises ends the
\* request before save()
grant_application_review ==
    \E user \in Users : \E req \in Requests : \E now \in Times :
      LET method == req.method
          post == req.post
      IN
        /\ IF ~can_be_reviewed_by(user)
           THEN /\ request' = Response(user, method, post, "redirect",
                        "You do not have permission to review this application.")
                /\ UNCHANGED application
           ELSE IF method # "POST"
           THEN /\ request' = Response(user, method, post, "render", "")
                /\ UNCHANGED application
           ELSE IF post.action = "review"
           THEN IF post.review_score # <<>> /\ ~IsDigits(post.review_score)
                THEN /\ request' = Response(user, method, post, "ValueError", "")
                     /\ UNCHANGED application
                ELSE /\ application' = Reviewed(application, user, post, now)
                     /\ request' = Response(user, method, post, "redirect",
                                             "Application marked as under review.")
           ELSE IF post.action = "approve" /\ can_be_approved_by(user)
           THEN IF post.has_amount /\ ~IsDigits(post.approved_amount)
                THEN /\ request' = Response(user, method, post, "InvalidOperation", "")
                     /\ UNCHANGED application
                ELSE /\ application' = Approved(application, user, post, now)
                     /\ request' = Response(user, method, post, "redirect",
                                             "Application approved successfully!")
           ELSE IF post.action = "reject" /\ can_be_approved_by(user)
           THEN /\ application' = Rejected(application, user, post, now)
                /\ request' = Response(user, method, post, "redirect",
                                        "Application rejected.")
           ELSE /\ request' = Response(user, method, post, "redirect", "")
                /\ UNCHANGED application
        /\ UNCHANGED <<Sequential, callers, instances, Messaging>>

NextGrants == grant_application_review

SpecGrants == InitGrants /\ [][NextGrants]_vars

-----------------------------------------------------------------------------
\* SMS service (core/sms.py).  A provider is the name of its class; a phone
\* number and a message are sequences of characters.

\* variant: the fallback provider appended before the primary one
_setup_providers_twilio_first(debug) ==
    <<"TwilioSMSProvider", "AfricasTalkingSMSProvider">>
    \o (IF debug THEN <<"ConsoleSMSProvider">> ELSE <<>>)

\* self.providers after __init__, for a value of settings.DEBUG
_setup_providers(debug) ==
    <<"AfricasTalkingSMSProvider", "TwilioSMSProvider">>
    \o (IF debug THEN <<"ConsoleSMSProvider">> ELSE <<>>)

\* ''.join(filter(str.isdigit, phone_number))
RECURSIVE DigitsOf(_)
DigitsOf(text) ==
    IF text = <<>> THEN <<>>
    ELSE IF IsDigits(<<Head(text)>>) THEN <<Head(text)>> \o DigitsOf(Tail(text))
    ELSE DigitsOf(Tail(text))

StartsWith(text, prefix) ==
    Len(text) >= Len(prefix) /\ SubSeq(text, 1, Len(prefix)) = prefix

_format_kenyan_number(phone_number) ==
    LET clean_number == DigitsOf(phone_number)
    IN  IF StartsWith(clean_number, <<"2", "5", "4">>) THEN <<"+">> \o clean_number
        ELSE IF StartsWith(clean_number, <<"0">>)
        THEN <<"+", "2", "5", "4">> \o Tail(clean_number)
        ELSE IF Len(clean_number) = 9 THEN <<"+", "2", "5", "4">> \o clean_number
        ELSE <<"+">> \o clean_number

\* l.146-147: message[:157] + '...' when the message has more than 160 characters
Truncate(message) ==
    IF Len(message) > 160 THEN SubSeq(message, 1, 157) \o <<".", ".", ".">>
    ELSE message

\* a local number, a number with other characters and the country code, and
\* a short number
PhoneNumbers ==
    {<<"0", "7", "1", "2", "3", "4", "5", "6", "7", "8">>,
     <<"+", "2", "5", "4", " ", "7", "1", "2", "-", "3", "4", "5", "6", "7", "8">>,
     <<"1", "2", "3", "4", "5">>}

ShortMessage == <<"T", "r", "a", "i", "n", "i", "n", "g", " ", "a", "t", " ", "9">>

\* one character more than the limit
LongMessage == [i \in 1..161 |-> "a"]

\* what render_to_string gives for the template
RenderedMessage == <<"R", "e", "m", "i", "n", "d", "e", "r">>

\* the arguments message and template_name/context of a call: a plain
\* message, or a template that is rendered in its place
MessageArguments ==
    {[message |-> ShortMessage, template |-> FALSE],
     [message |-> LongMessage, template |-> FALSE],
     [message |-> <<>>, template |-> TRUE]}

\* what provider.send_sms does in a call: it returns True, returns False or
\* raises (caught at l.153); the console provider prints and returns True
Answers ==
    {[AfricasTalkingSMSProvider |-> a, TwilioSMSProvider |-> t,
      ConsoleSMSProvider |-> "True"] : a, t \in {"True", "False", "raise"}}

\* the loop of l.149-155 over ps: the providers called, in order, and the
\* one that reported success
RECURSIVE TryProviders(_, _)
TryProviders(ps, answers) ==
    IF ps = <<>> THEN [tried |-> <<>>, success |-> FALSE, provider |-> ""]
    ELSE IF answers[Head(ps)] = "True"
    THEN [tried |-> <<Head(ps)>>, success |-> TRUE, provider |-> Head(ps)]
    ELSE [TryProviders(Tail(ps), answers) EXCEPT !.tried = <<Head(ps)>> \o @]

InitSMS ==
    /\ household = ScenarioHousehold
    /\ households = <<>>
    /\ scorer = NewScorer
    /\ tool = [scorer |-> NewScorer]
    /\ op = "init"
    /\ arg = ""
    /\ ret = NoReturn
    /\ callers = NoCallers
    /\ instances = NoCallers
    /\ application = NoApplication
    /\ request = NoRequest
    /\ providers \in {_setup_providers(debug) : debug \in BOOLEAN}
    /\ sms_log = <<>>
    /\ sms_call = NoCall

\* SMSService.send_sms with _log_sms: SMSLog.objects.create either stores the
\* row or raises, which _log_sms catches (l.190-191)
send_sms ==
    \E phone_number \in PhoneNumbers : \E m \in MessageArguments :
    \E answers \in Answers : \E log_write \in {"stored", "raise"} :
    \E now \in Times :
        LET formatted_number == _format_kenyan_number(phone_number)
            message == Truncate(IF m.template THEN RenderedMessage ELSE m.message)
            sent == TryProviders(providers, answers)
            row == [phone_number |-> formatted_number, message |-> message,
                    success |-> sent.success,
                    provider |-> IF sent.success THEN sent.provider
                                 ELSE "All providers failed",
                    sent_at |-> now]
        IN  /\ Len(sms_log) < MaxLog
            /\ sms_log' = IF log_write = "stored" THEN Append(sms_log, row)
                          ELSE sms_log
            /\ sms_call' = [answers |-> answers, tried |-> sent.tried,
                            result |-> PyBool(sent.success),
                            log_write |-> log_write]
            /\ UNCHANGED <<providers, Sequential, callers, instances, Grants>>

NextSMS == send_sms

SpecSMS == InitSMS /\ [][NextSMS]_vars

-----------------------------------------------------------------------------
\* Properties

CalculateReturned == op = "calculate_comprehensive_score" /\ ret.kind = "return"

QualificationReturned == op = "run_qualification_assessment" /\ ret.kind = "return"

BatchReturned == op = "batch_eligibility_assessment" /\ ret.kind = "return"

\* C1: every category score of a result of calculate_comprehensive_score lies
\* in [0,100] points, and so does its total_score (0..10000 centi-points).
C1_ScoresInRange ==
    CalculateReturned =>
        /\ \A n \in 1..Len(Categories) :
               ret.value.category_scores[Categories[n]] \in 0..100
        /\ ret.value.total_score \in 0..10000

\* a result whose social score was cut down to 100 by the cap
C1_Witness ==
    /\ CalculateReturned
    /\ SocialVulnerability(household) > 100
    /\ ret.value.category_scores.social_factors = 100

\* C2: total_score is 0.30*poverty_index + 0.25*income_level +
\* 0.15*asset_ownership + 0.15*social_factors + 0.10*geographic +
\* 0.05*demographic of the same result, to two decimals (in centi-points the
\* weights are 30, 25, 15, 15, 10, 5), and the six weights sum to 1.0.
C2_WeightedTotal ==
    /\ SCORING_WEIGHTS.poverty_index + SCORING_WEIGHTS.income_level
         + SCORING_WEIGHTS.asset_ownership + SCORING_WEIGHTS.social_factors
         + SCORING_WEIGHTS.geographic + SCORING_WEIGHTS.demographic = WeightUnit
    /\ CalculateReturned =>
           LET cs == ret.value.category_scores
           IN  ret.value.total_score =
                   30 * cs.poverty_index + 25 * cs.income_level
                   + 15 * cs.asset_ownership + 15 * cs.social_factors
                   + 10 * cs.geographic + 5 * cs.demographic

\* a result whose six category scores are all different
C2_Witness ==
    /\ CalculateReturned
    /\ \A m \in 1..Len(Categories) : \A n \in 1..Len(Categories) :
           m # n => ret.value.category_scores[Categories[m]]
                    # ret.value.category_scores[Categories[n]]

\* C3: eligibility_level is the band of the result's total_score, top-down:
\* >= 80 highly_eligible, >= 60 eligible, >= 40 marginally_eligible, else
\* not_eligible; 80.0 is highly_eligible, 79.99 and 60.0 eligible, 59.99 and
\* 40.0 marginally_eligible, 39.99 not_eligible.
C3_BandOfTotal ==
    CalculateReturned =>
        /\ ret.value.eligibility_level =
               IF ret.value.total_score >= 8000 THEN "highly_eligible"
               ELSE IF ret.value.total_score >= 6000 THEN "eligible"
               ELSE IF ret.value.total_score >= 4000 THEN "marginally_eligible"
               ELSE "not_eligible"
        /\ EligibilityLevel(80000) = "highly_eligible"
        /\ EligibilityLevel(79990) = "eligible"
        /\ EligibilityLevel(60000) = "eligible"
        /\ EligibilityLevel(59990) = "marginally_eligible"
        /\ EligibilityLevel(40000) = "marginally_eligible"
        /\ EligibilityLevel(39990) = "not_eligible"

\* a result whose total_score is exactly 80.00
C3_Witness ==
    /\ CalculateReturned
    /\ ret.value.total_score = 8000
    /\ ret.value.eligibility_level = "highly_eligible"

\* C4: for every latest_ppi_score in 0..100 the poverty_index score is 100 if
\* the score is <= 20, 80 if <= 40, 60 if <= 60, 30 if <= 80 and 10 otherwise;
\* it is 50 only when latest_ppi_score is None.
C4_PovertyBands ==
    CalculateReturned =>
        ret.value.category_scores.poverty_index =
            IF IsNone(household, "latest_ppi_score") THEN 50
            ELSE IF household.latest_ppi_score <= 20 THEN 100
            ELSE IF household.latest_ppi_score <= 40 THEN 80
            ELSE IF household.latest_ppi_score <= 60 THEN 60
            ELSE IF household.latest_ppi_score <= 80 THEN 30
            ELSE 10

\* C5, as stated: the scenario household scores 100 in every category, with
\* total_score 100.00 and level highly_eligible.
C5_ScenarioAllHundred ==
    (CalculateReturned /\ household = ScenarioHousehold) =>
        /\ \A n \in 1..Len(Categories) :
               ret.value.category_scores[Categories[n]] = 100
        /\ ret.value.total_score = 10000
        /\ ret.value.eligibility_level = "highly_eligible"

\* C5, amended: the scenario household scores 100 in poverty_index,
\* income_level, asset_ownership, geographic and demographic and 95 in
\* social_factors (a head aged 60 earns +5, not +10), with total_score 99.25
\* and level highly_eligible.
C5_ScenarioScores ==
    (CalculateReturned /\ household = ScenarioHousehold) =>
        /\ ret.value.category_scores =
               [poverty_index |-> 100, income_level |-> 100,
                asset_ownership |-> 100, social_factors |-> 95,
                geographic |-> 100, demographic |-> 100]
        /\ ret.value.total_score = 9925
        /\ ret.value.eligibility_level = "highly_eligible"

\* the scenario household has been scored
C5_Witness == CalculateReturned /\ household = ScenarioHousehold

\* C6: run_qualification_assessment returns final_qualification.qualified =
\* true if and only if the eligibility_level of its eligibility_assessment is
\* highly_eligible or eligible and all four qualification_checks are true.
C6_QualifiedIff ==
    QualificationReturned =>
        LET r == ret.value
        IN  r.final_qualification.qualified <=>
                /\ r.eligibility_assessment.eligibility_level
                       \in {"highly_eligible", "eligible"}
                /\ r.qualification_checks.geographic_eligibility = "True"
                /\ r.qualification_checks.program_capacity = "True"
                /\ r.qualification_checks.previous_participation = "True"
                /\ r.qualification_checks.consent_and_commitment = "True"

\* an eligible household that is not qualified because a check failed
C6_Witness ==
    /\ QualificationReturned
    /\ ret.value.eligibility_assessment.eligibility_level = "eligible"
    /\ ret.value.qualification_checks.consent_and_commitment = "False"
    /\ ~ret.value.final_qualification.qualified

\* the names of the checks of ch that are not true, in the order of the dict
C7_Failing(ch) ==
    (IF ch.geographic_eligibility # "True"
     THEN <<"geographic_eligibility">> ELSE <<>>)
    \o (IF ch.program_capacity # "True"
        THEN <<"program_capacity">> ELSE <<>>)
    \o (IF ch.previous_participation # "True"
        THEN <<"previous_participation">> ELSE <<>>)
    \o (IF ch.consent_and_commitment # "True"
        THEN <<"consent_and_commitment">> ELSE <<>>)

\* C7: status is 'qualified' when the level is highly_eligible or eligible and
\* all checks pass; 'needs_review' when the level is highly_eligible or
\* eligible and some check fails, blocking_factors then being exactly the
\* names of the failing checks; 'not_qualified' when the level is
\* marginally_eligible or not_eligible, whatever the checks, with no
\* blocking_factors.
C7_StatusThreeWay ==
    QualificationReturned =>
        LET r == ret.value
            fq == r.final_qualification
            eligible == r.eligibility_assessment.eligibility_level
                            \in {"highly_eligible", "eligible"}
            failing == C7_Failing(r.qualification_checks)
        IN  /\ (eligible /\ failing = <<>>) => fq.status = "qualified"
            /\ (eligible /\ failing # <<>>) =>
                   /\ fq.status = "needs_review"
                   /\ "blocking_factors" \in DOMAIN fq
                   /\ fq.blocking_factors = failing
            /\ ~eligible =>
                   /\ fq.status = "not_qualified"
                   /\ "blocking_factors" \notin DOMAIN fq

\* an eligible household in a program area without consent
C7_Witness ==
    /\ QualificationReturned
    /\ ret.value.eligibility_assessment.eligibility_level = "eligible"
    /\ IsSet(household, "village") /\ household.village.is_program_area
    /\ IsSet(household, "consent_given") /\ ~household.consent_given
    /\ ret.value.final_qualification.status = "needs_review"
    /\ ret.value.final_qualification.blocking_factors = <<"consent_and_commitment">>

\* C8: calculate_comprehensive_score and run_qualification_assessment never
\* raise, whichever optional fields of the household are missing or None.
C8_NeverRaises ==
    op \in {"calculate_comprehensive_score", "run_qualification_assessment"}
        => ret.kind = "return"

\* C9: of two households equal in every field but latest_ppi_score (both in
\* 0..100), the one with the lower score has a poverty_index score and a
\* total_score not lower than the other's; with 10 against 90 the
\* poverty_index score is strictly higher.
C9_LowerPPINotLower ==
    (CalculateReturned /\ IsSet(household, "latest_ppi_score")) =>
        \A p \in 0..100 :
            LET other == ScoreResult([household EXCEPT !.latest_ppi_score = p])
            IN  /\ p < household.latest_ppi_score =>
                       /\ other.category_scores.poverty_index
                              >= ret.value.category_scores.poverty_index
                       /\ other.total_score >= ret.value.total_score
                /\ (p = 10 /\ household.latest_ppi_score = 90) =>
                       other.category_scores.poverty_index
                           > ret.value.category_scores.poverty_index

\* the position of the household with this id in the input list
C10_InputIndex(id) == CHOOSE i \in 1..Len(households) : households[i].id = id

\* C10: batch_eligibility_assessment over N households returns N entries, one
\* per input household, ordered by total_score descending; entries with equal
\* total_score keep the relative order of their households in the input.
C10_BatchOrder ==
    BatchReturned =>
        LET rs == ret.value
        IN  /\ Len(rs) = Len(households)
            /\ \A i \in 1..Len(households) :
                   \E k \in 1..Len(rs) :
                       /\ rs[k].household_id = households[i].id
                       /\ rs[k].household_name = households[i].name
                       /\ rs[k].total_score = ScoreResult(households[i]).total_score
            /\ \A a \in 1..Len(rs) : \A b \in 1..Len(rs) :
                   a < b =>
                       /\ rs[a].total_score >= rs[b].total_score
                       /\ rs[a].total_score = rs[b].total_score =>
                              C10_InputIndex(rs[a].household_id)
                                  < C10_InputIndex(rs[b].household_id)

\* a batch of three in which two households tie and the sort moved an entry
C10_Witness ==
    /\ BatchReturned
    /\ Len(ret.value) >= 3
    /\ \E a \in 1..Len(ret.value) : \E b \in 1..Len(ret.value) :
           a # b /\ ret.value[a].total_score = ret.value[b].total_score
    /\ \E k \in 1..Len(ret.value) : ret.value[k].household_id # households[k].id

\* C11: is_eligible_for_program('graduation') is true iff the computed
\* eligibility_level is highly_eligible or eligible; with 'general' it is true
\* iff the level is not not_eligible; with any other program_type it returns
\* False and does not raise.
C11_ProgramEligibility ==
    op = "is_eligible_for_program" =>
        /\ ret.kind = "return"
        /\ arg = "graduation" =>
               (ret.value <=> scorer.eligibility_level
                                  \in {"highly_eligible", "eligible"})
        /\ arg = "general" =>
               (ret.value <=> scorer.eligibility_level # "not_eligible")
        /\ arg \notin {"graduation", "general"} => ret.value = FALSE

\* a marginally eligible household accepted for a general program
C11_Witness ==
    /\ op = "is_eligible_for_program"
    /\ arg = "general"
    /\ ret.kind = "return"
    /\ scorer.eligibility_level = "marginally_eligible"
    /\ ret.value = TRUE

\* C12: the income_level score is 100 if monthly_income <= 2500, 80 if <= 5000,
\* 60 if <= 7500, 40 if <= 10000 and 20 otherwise, for every non-negative
\* monthly_income (in cents: 250000, 500000, 750000, 1000000).
C12_IncomeBands ==
    (CalculateReturned /\ IsSet(household, "monthly_income")) =>
        ret.value.category_scores.income_level =
            IF household.monthly_income <= 250000 THEN 100
            ELSE IF household.monthly_income <= 500000 THEN 80
            ELSE IF household.monthly_income <= 750000 THEN 60
            ELSE IF household.monthly_income <= 1000000 THEN 40
            ELSE 20

\* an income of exactly 7500.00, on the limit computed as poverty_line * 1.5
C12_Witness ==
    /\ CalculateReturned
    /\ IsSet(household, "monthly_income")
    /\ household.monthly_income = 750000
    /\ ret.value.category_scores.income_level = 60

\* C13: the asset_ownership score depends only on the numbers of true flags in
\* the three tiers, first match winning: more than 2 luxury flags give 10; any
\* luxury flag or more than 2 productive flags give 30; any productive flag or
\* more than 2 basic flags give 60; any basic flag gives 80; no asset gives
\* 100.  A flag outside the three tiers does not change the score.
C13_AssetBands ==
    (CalculateReturned /\ IsSet(household, "assets")) =>
        LET basic == Cardinality(household.assets
                                 \cap {"bicycle", "radio", "mobile_phone"})
            productive == Cardinality(household.assets
                                 \cap {"livestock", "land", "business_equipment"})
            luxury == Cardinality(household.assets
                                 \cap {"car", "motorcycle", "television", "refrigerator"})
        IN  /\ ret.value.category_scores.asset_ownership =
                   IF luxury > 2 THEN 10
                   ELSE IF luxury > 0 \/ productive > 2 THEN 30
                   ELSE IF productive > 0 \/ basic > 2 THEN 60
                   ELSE IF basic > 0 THEN 80
                   ELSE 100
            /\ ret.value.category_scores.asset_ownership =
                   ScoreResult([household EXCEPT !.assets = @ \ {"house"}])
                       .category_scores.asset_ownership

\* a household whose only asset flag lies outside the tiers scores 100
C13_Witness ==
    /\ CalculateReturned
    /\ IsSet(household, "assets")
    /\ household.assets = {"house"}
    /\ ret.value.category_scores.asset_ownership = 100

\* C14: the social_factors score is min(100, 50 + 15 if head_gender is
\* 'female' + (10 if head_age >= 65, else 5 if head_age >= 55) + 15 if
\* disabled_members_count > 0 + 10 if is_single_parent + dependency bonus),
\* the bonus being 15, 10 or 5 when (total_members - working_members_count) /
\* max(working_members_count, 1) is >= 3, >= 2 or >= 1, and 0 otherwise.
C14_SocialScore ==
    CalculateReturned =>
        LET h == household
            w == IF h.working_members_count >= 1 THEN h.working_members_count ELSE 1
            d == h.total_members - h.working_members_count
            sum == 50
                   + (IF h.head_gender = "female" THEN 15 ELSE 0)
                   + (IF h.head_age >= 65 THEN 10
                      ELSE IF h.head_age >= 55 THEN 5 ELSE 0)
                   + (IF h.disabled_members_count > 0 THEN 15 ELSE 0)
                   + (IF h.is_single_parent THEN 10 ELSE 0)
                   + (IF d >= 3 * w THEN 15
                      ELSE IF d >= 2 * w THEN 10
                      ELSE IF d >= w THEN 5 ELSE 0)
        IN  ret.value.category_scores.social_factors
                = IF sum <= 100 THEN sum ELSE 100

\* three dependents and no working member: the ratio is taken over max(0, 1)
C14_Witness ==
    /\ CalculateReturned
    /\ household.total_members = 3
    /\ household.working_members_count = 0
    /\ household.head_gender = "male" /\ household.head_age = 64
    /\ household.disabled_members_count = 0 /\ ~household.is_single_parent
    /\ ret.value.category_scores.social_factors = 70

\* C15: the geographic score is min(100, 50 + 20 if the location text contains
\* 'remote', 'rural' or 'isolated' in any letter case + (15 if
\* village.distance_to_market > 20, else 10 if > 10, else 5 if > 5) + 10 if
\* the household has no electricity + 15 if it has no clean water); the
\* market bonus is 0 when the household has no village.
C15_GeographicScore ==
    CalculateReturned =>
        LET h == household
            keyword == h.location \in {RemoteRuralArea, IsolatedUpper,
                                       RuralMixedCase, SemiruralTown}
            market == IF IsNone(h, "village") THEN 0
                      ELSE IF h.village.distance_to_market > 20 THEN 15
                      ELSE IF h.village.distance_to_market > 10 THEN 10
                      ELSE IF h.village.distance_to_market > 5 THEN 5
                      ELSE 0
            sum == 50 + (IF keyword THEN 20 ELSE 0) + market
                   + (IF ~h.has_electricity THEN 10 ELSE 0)
                   + (IF ~h.has_clean_water THEN 15 ELSE 0)
        IN  ret.value.category_scores.geographic
                = IF sum <= 100 THEN sum ELSE 100

\* an upper-case keyword, and no village: 50 + 20 + 0 + 10 + 15
C15_Witness ==
    /\ CalculateReturned
    /\ household.location = IsolatedUpper
    /\ IsNone(household, "village")
    /\ ~household.has_electricity /\ ~household.has_clean_water
    /\ ret.value.category_scores.geographic = 95

\* C16: the demographic score is 50 plus the household-size bonus (+20 if
\* total_members >= 8, +15 if >= 6, +10 if >= 4, 0 if 3, -10 if <= 2) plus the
\* children-under-5 bonus (+15 if >= 3, +10 if 2, +5 if 1) plus the
\* head-education bonus (+15 for 'none' or 'primary_incomplete', +10 for
\* 'primary_complete', +5 for 'secondary_incomplete', 0 otherwise), clamped to
\* [0,100].
C16_DemographicScore ==
    CalculateReturned =>
        LET h == household
            sum == 50
                   + (IF h.total_members >= 8 THEN 20
                      ELSE IF h.total_members >= 6 THEN 15
                      ELSE IF h.total_members >= 4 THEN 10
                      ELSE IF h.total_members = 3 THEN 0
                      ELSE 0 - 10)
                   + (IF h.children_under_5_count >= 3 THEN 15
                      ELSE IF h.children_under_5_count = 2 THEN 10
                      ELSE IF h.children_under_5_count = 1 THEN 5
                      ELSE 0)
                   + (IF h.head_education_level \in {"none", "primary_incomplete"}
                      THEN 15
                      ELSE IF h.head_education_level = "primary_complete" THEN 10
                      ELSE IF h.head_education_level = "secondary_incomplete" THEN 5
                      ELSE 0)
        IN  ret.value.category_scores.demographic
                = IF sum < 0 THEN 0 ELSE IF sum > 100 THEN 100 ELSE sum

\* a household of three with two small children and a head schooled to
\* secondary level: 50 + 0 + 10 + 0
C16_Witness ==
    /\ CalculateReturned
    /\ household.total_members = 3
    /\ household.children_under_5_count = 2
    /\ household.head_education_level = "secondary"
    /\ ret.value.category_scores.demographic = 60

\* C17: improvement_areas holds exactly one hint for each category whose score
\* is below 60 and none for a category scoring 60 or more, in the order
\* poverty_index, income_level, asset_ownership, social_factors, geographic,
\* demographic.
C17_ImprovementAreas ==
    CalculateReturned =>
        LET cs == ret.value.category_scores
        IN  ret.value.improvement_areas =
                (IF cs.poverty_index < 60
                 THEN <<"Consider updated PPI assessment">> ELSE <<>>)
                \o (IF cs.income_level < 60
                    THEN <<"Income documentation may need verification">> ELSE <<>>)
                \o (IF cs.asset_ownership < 60
                    THEN <<"Asset assessment may need review">> ELSE <<>>)
                \o (IF cs.social_factors < 60
                    THEN <<"Social vulnerability factors need assessment">> ELSE <<>>)
                \o (IF cs.geographic < 60
                    THEN <<"Geographic accessibility factors">> ELSE <<>>)
                \o (IF cs.demographic < 60
                    THEN <<"Demographic characteristics assessment">> ELSE <<>>)

\* a result with a score of exactly 60, which earns no hint, and two hints
\* that are not neighbours in the category order
C17_Witness ==
    /\ CalculateReturned
    /\ ret.value.category_scores.poverty_index = 60
    /\ ret.value.improvement_areas =
           <<"Income documentation may need verification",
             "Demographic characteristics assessment">>

\* C18: for a fixed household, a call of calculate_comprehensive_score on an
\* instance that has already been used (by calculate_comprehensive_score or
\* is_eligible_for_program; for the tool's scorer, by
\* run_qualification_assessment) returns exactly what a call on a newly
\* constructed instance returns, and two consecutive calls return the same
\* dict: the attributes an earlier call left on the instance have no
\* influence on a later result.
C18_Step ==
    /\ (scorer # NewScorer /\ op' = "calculate_comprehensive_score")
          => /\ ret' = CallCalculate(household)
             /\ (op = "calculate_comprehensive_score" => ret' = ret)
    /\ (tool.scorer # NewScorer /\ op' = "run_qualification_assessment"
          /\ ret'.kind = "return")
          => ret'.value.eligibility_assessment = ScoreResult(household)

C18_Deterministic == [][C18_Step]_vars

\* calculate_comprehensive_score has returned the new-instance result in a
\* state where the tool's scorer had been used before it: a later call
C18_Witness ==
    /\ CalculateReturned
    /\ tool.scorer # NewScorer
    /\ ret.value = ScoreResult(household)

\* C19: no step of calculate_comprehensive_score, is_eligible_for_program,
\* run_qualification_assessment, quick_eligibility_check or
\* batch_eligibility_assessment changes a field of the household it is given,
\* nor the list of households (its members, their fields, their order).
C19_Frame == [][household' = household /\ households' = households]_vars

\* a batch call has returned its entries in another order than the input's,
\* and the input list is still one of the lists the callers passed
C19_Witness ==
    /\ BatchReturned
    /\ Len(households) >= 2
    /\ households \in BatchInputs
    /\ \E k \in 1..Len(ret.value) : ret.value[k].household_id # households[k].id

\* what caller c's call returns or raises when nothing else runs: the call
\* on an instance no other caller touches
RunAlone(c) ==
    LET h == callers[c].household
    IN  IF callers[c].kind = "scorer" THEN CallCalculate(h)
        ELSE IF ScoringException(h) # "none" THEN Raise(ScoringException(h))
        ELSE Return(QualificationResult(h, callers[c].ret.value.assessment_date))

\* C20: under every interleaving of the steps of concurrent callers, each
\* with its own scorer or tool instance and its own household, a call that
\* has finished has returned (or raised) what it returns when run alone, and
\* every instance only ever holds scores of its own caller's household.
C20_Isolated ==
    \A c \in Callers :
        /\ callers[c].pc = "done" => callers[c].ret = RunAlone(c)
        /\ instances[InstanceOf(c)].scores \in {NoScores, CategoryScores(callers[c].household)}

\* a scorer's call has returned while a tool's call for another household
\* was under way, between two assignments, on an instance used before
C20_Witness ==
    \E c \in Callers : \E d \in Callers :
        /\ callers[c].kind = "scorer" /\ callers[d].kind = "tool"
        /\ callers[c].household # callers[d].household
        /\ callers[c].pc = "done" /\ callers[c].ret.kind = "return"
        /\ callers[d].pc = "total_assigned"
        /\ instances[InstanceOf(d)].eligibility_level # "not_eligible"
        /\ instances[InstanceOf(d)].scores # instances[InstanceOf(c)].scores

\* the household has a village object that carries an is_program_area flag
C21_Flagged ==
    /\ "village" \notin household.none \cup household.missing
    /\ "is_program_area" \in household.village.attrs

\* C21: the geographic_eligibility check of run_qualification_assessment is
\* False exactly when the household has a village whose is_program_area flag
\* is false; it is True when the flag is true, when the household has no
\* village (None or no attribute) and when the village carries no flag.
C21_GeographicCheck ==
    QualificationReturned =>
        LET g == ret.value.qualification_checks.geographic_eligibility
        IN  /\ g \in {"True", "False"}
            /\ g = "False" <=> (C21_Flagged /\ ~household.village.is_program_area)

\* an assessment of a household without a village, and of one whose village
\* has no flag, passed the check
C21_Witness ==
    /\ QualificationReturned
    /\ ~C21_Flagged
    /\ ret.value.qualification_checks.geographic_eligibility = "True"
    /\ ret.value.final_qualification.qualified

\* the household has consent_given = True
C22_Consented ==
    /\ "consent_given" \notin household.none \cup household.missing
    /\ household.consent_given

\* C22: the consent_and_commitment check of run_qualification_assessment is
\* the household's consent_given (False when the attribute is absent), and
\* an assessment of a household whose consent_given is not True is never
\* qualified, at any eligibility level.
C22_ConsentGate ==
    QualificationReturned =>
        LET c == ret.value.qualification_checks.consent_and_commitment
            f == ret.value.final_qualification
        IN  /\ "consent_given" \in household.missing => c = "False"
            /\ "consent_given" \in household.none => c = "None"
            /\ "consent_given" \notin household.none \cup household.missing
                   => c = (IF household.consent_given THEN "True" ELSE "False")
            /\ ~C22_Consented => (~f.qualified /\ f.status # "qualified")

\* a highly eligible household without the consent_given attribute that
\* passes the geographic check is held back for review
C22_Witness ==
    /\ QualificationReturned
    /\ "consent_given" \in household.missing
    /\ ret.value.eligibility_assessment.eligibility_level = "highly_eligible"
    /\ ret.value.qualification_checks.geographic_eligibility = "True"
    /\ ret.value.final_qualification.status = "needs_review"

\* C23: in every result of run_qualification_assessment the program_capacity
\* and previous_participation checks are True, and blocking_factors, when
\* the decision carries it, is a non-empty sublist of
\* <<"geographic_eligibility", "consent_and_commitment">>.
C23_StubbedChecks ==
    QualificationReturned =>
        LET r == ret.value
        IN  /\ r.qualification_checks.program_capacity = "True"
            /\ r.qualification_checks.previous_participation = "True"
            /\ "blocking_factors" \in DOMAIN r.final_qualification =>
                   r.final_qualification.blocking_factors \in
                       {<<"geographic_eligibility">>,
                        <<"consent_and_commitment">>,
                        <<"geographic_eligibility", "consent_and_commitment">>}

\* a decision that names both checks a household can fail
C23_Witness ==
    /\ QualificationReturned
    /\ "blocking_factors" \in DOMAIN ret.value.final_qualification
    /\ Len(ret.value.final_qualification.blocking_factors) = 2

\* C24: every category score is a multiple of 5 and every weight a multiple
\* of 0.05, so every total calculate_comprehensive_score produces is a
\* multiple of 0.25; round(total, 2) is the total itself, and the band taken
\* from the unrounded total is the band of the reported total_score.
C24_QuarterPoints ==
    CalculateReturned =>
        /\ \A c \in DOMAIN ret.value.category_scores :
               /\ ret.value.category_scores[c] % 5 = 0
               /\ (20 * SCORING_WEIGHTS[c]) % WeightUnit = 0
        /\ (4 * scorer.total_score) % WeightUnit = 0
        /\ 10 * ret.value.total_score = scorer.total_score
        /\ EligibilityLevel(10 * ret.value.total_score) = ret.value.eligibility_level

\* a reported total that is not a whole number of points
C24_Witness ==
    /\ CalculateReturned
    /\ scorer.total_score % WeightUnit # 0
    /\ ret.value.total_score % 100 \in {25, 75}

\* latest_ppi_score is None and every other optional attribute is absent
C25_Absent ==
    /\ household.none = {"latest_ppi_score"}
    /\ household.missing = Fields \ {"latest_ppi_score"}

\* C25: the household with latest_ppi_score None and no other optional
\* attribute gets the category scores 50, 100, 100, 50, 75, 55, total_score
\* 72.75 and eligibility_level eligible from calculate_comprehensive_score,
\* and status needs_review with blocking_factors
\* <<"consent_and_commitment">> from run_qualification_assessment.
C25_AbsentDefaults ==
    C25_Absent =>
        /\ op = "calculate_comprehensive_score" =>
               /\ ret.kind = "return"
               /\ ret.value.category_scores =
                      [poverty_index |-> 50, income_level |-> 100,
                       asset_ownership |-> 100, social_factors |-> 50,
                       geographic |-> 75, demographic |-> 55]
               /\ ret.value.total_score = 7275
               /\ ret.value.eligibility_level = "eligible"
        /\ op = "run_qualification_assessment" =>
               /\ ret.kind = "return"
               /\ ret.value.eligibility_assessment.total_score = 7275
               /\ ret.value.final_qualification.status = "needs_review"
               /\ ret.value.final_qualification.blocking_factors =
                      <<"consent_and_commitment">>

\* the assessment of that household has been returned
C25_Witness ==
    /\ C25_Absent
    /\ QualificationReturned
    /\ tool.scorer.total_score = 72750
    /\ ~ret.value.final_qualification.qualified

\* C26: a household that differs from the scored one only by one more asset
\* flag set to true, of any tier or of none, gets an asset_ownership score
\* and a total_score that are not higher; the first luxury flag added to a
\* household without assets lowers both.
C26_MoreAssetsNotHigher ==
    (CalculateReturned /\ IsSet(household, "assets")) =>
        \A a \in AssetNames \ household.assets :
            LET more == ScoreResult([household EXCEPT !.assets = @ \cup {a}])
            IN  /\ more.category_scores.asset_ownership
                       <= ret.value.category_scores.asset_ownership
                /\ more.total_score <= ret.value.total_score
                /\ (household.assets = {} /\ a \in luxury_assets) =>
                       /\ more.category_scores.asset_ownership
                              < ret.value.category_scores.asset_ownership
                       /\ more.total_score < ret.value.total_score

\* a scored household with one luxury flag, to which a productive flag can
\* still be added
C26_Witness ==
    /\ CalculateReturned
    /\ IsSet(household, "assets")
    /\ household.assets = {"car"}
    /\ ret.value.category_scores.asset_ownership = 30
    /\ ScoreResult([household EXCEPT !.assets = @ \cup {"land"}])
           .category_scores.asset_ownership = 30

\* the call o with argument a returned r, and r carries an eligibility
\* verdict on the household
C27_HasVerdict(o, a, r) ==
    /\ r.kind = "return"
    /\ \/ o \in {"quick_eligibility_check", "run_qualification_assessment"}
       \/ o = "is_eligible_for_program" /\ a = "graduation"
       \/ o = "batch_eligibility_assessment" /\ Len(r.value) = 1

C27_Verdict(o, r) ==
    CASE o = "quick_eligibility_check" -> r.value
      [] o = "is_eligible_for_program" -> r.value
      [] o = "batch_eligibility_assessment" -> r.value[1].eligible
      [] o = "run_qualification_assessment" ->
             r.value.final_qualification.status # "not_qualified"

C27_Step ==
    /\ (C27_HasVerdict(op, arg, ret) /\ C27_HasVerdict(op', arg', ret'))
          => C27_Verdict(op, ret) = C27_Verdict(op', ret')
    /\ (/\ op = "is_eligible_for_program" /\ op' = "is_eligible_for_program"
        /\ ret.kind = "return" /\ ret'.kind = "return"
        /\ arg = "graduation" /\ arg' = "general")
          => (ret.value => ret'.value)
    /\ (/\ op = "is_eligible_for_program" /\ op' = "is_eligible_for_program"
        /\ ret.kind = "return" /\ ret'.kind = "return"
        /\ arg = "general" /\ arg' = "graduation")
          => (ret'.value => ret.value)

\* C27: for one household, any two calls that follow one another among
\* quick_eligibility_check, is_eligible_for_program('graduation'),
\* batch_eligibility_assessment (the 'eligible' flag of the household's
\* entry) and run_qualification_assessment (status # 'not_qualified') give
\* the same verdict, and is_eligible_for_program('general') is true whenever
\* is_eligible_for_program('graduation') is.
C27_VerdictsAgree == [][C27_Step]_vars

\* an assessment that holds an eligible household back for review, on a
\* household whose scorer already holds an eligible level from its own call
C27_Witness ==
    /\ QualificationReturned
    /\ ret.value.final_qualification.status = "needs_review"
    /\ scorer # NewScorer
    /\ scorer.eligibility_level = "eligible"

\* the roles that may approve or reject
C28_ApproverRoles == {"program_manager", "county_director", "executive"}

C28_Step ==
    /\ (/\ application'.status \in {"approved", "rejected"}
        /\ application'.status # application.status)
          => /\ request'.user.role \in C28_ApproverRoles
             /\ request'.method = "POST"
             /\ request'.action = (IF application'.status = "approved"
                                   THEN "approve" ELSE "reject")
    /\ (/\ request'.action \in {"approve", "reject"}
        /\ request'.user.role \notin C28_ApproverRoles)
          => /\ application'.status = application.status
             /\ application'.approved_by = application.approved_by
             /\ application'.approval_date = application.approval_date
             /\ application'.approved_amount = application.approved_amount
             /\ application'.none = application.none

\* C28: over every sequence of requests to grant_application_review by any
\* users, the status of the application changes to 'approved' or 'rejected'
\* only in a POST of that action by a user whose role is program_manager,
\* county_director or executive; an 'approve' or 'reject' posted by a user
\* of any other role leaves status, approved_by, approval_date and
\* approved_amount as they were.
C28_ApprovalByApprovers == [][C28_Step]_vars

\* an 'approve' posted by an ict_admin, who had put the application under
\* review, was answered without an approval
C28_Witness ==
    /\ request.response = "redirect"
    /\ request.action = "approve"
    /\ request.user.role = "ict_admin"
    /\ application.status = "under_review"
    /\ application.reviewed_by.role = "ict_admin"
    /\ "approved_by" \in application.none

\* C29: once the application has status 'approved' or 'rejected', no later
\* request to grant_application_review changes its status; in particular an
\* approved application never becomes 'under_review' or 'rejected'.
C29_TerminalStatus ==
    [][application.status \in {"approved", "rejected"}
          => application'.status = application.status]_vars

\* the fixed order of the providers
C30_Order == <<"AfricasTalkingSMSProvider", "TwilioSMSProvider", "ConsoleSMSProvider">>

\* the call of this step tried the providers in the fixed order, the console
\* provider only when the service has it, stopped at the first one that
\* answered True, passed over those that answered False or raised, and
\* returned True iff one answered True
C30_Delivery ==
    LET tried == sms_call'.tried
        answers == sms_call'.answers
        succeeded == {i \in 1..Len(providers) : answers[providers[i]] = "True"}
    IN  /\ tried = SubSeq(C30_Order, 1, Len(tried))
        /\ Len(tried) <= Len(providers)
        /\ \A i \in 1..(Len(tried) - 1) : answers[tried[i]] \in {"False", "raise"}
        /\ sms_call'.result = (IF succeeded # {} THEN "True" ELSE "False")
        /\ succeeded # {} => answers[tried[Len(tried)]] = "True"
        /\ succeeded = {} => tried = providers

\* the call of this step added one row to the log, naming the provider that
\* succeeded or 'All providers failed'
C30_OneRow ==
    /\ Len(sms_log') = Len(sms_log) + 1
    /\ SubSeq(sms_log', 1, Len(sms_log)) = sms_log
    /\ LET row == sms_log'[Len(sms_log')]
       IN  /\ row.success = (sms_call'.result = "True")
           /\ row.provider = (IF sms_call'.result = "True"
                              THEN sms_call'.tried[Len(sms_call'.tried)]
                              ELSE "All providers failed")

====
